---- MODULE Spec2Model ----
(***************************************************************************)
(* Model of the tile acquisition pipeline of wmts-extractor:               *)
(*   Downloader.process / Downloader.getTaskList   (src/src/downloader.py) *)
(*   TileScraper.__init__ / run / getTile          (src/src/scraper.py)    *)
(* The main thread partitions the tile grid into lanes, starts one worker  *)
(* thread per lane, joins them, merges the produced rasters and cleans up. *)
(* HTTP transport, GDAL and shapely are external: their results are drawn  *)
(* nondeterministically from the outcomes the libraries can produce.       *)
(***************************************************************************)
EXTENDS Integers, Sequences, FiniteSets, TLC

\* ---------------------------------------------------------------- bounds
MaxThreads == 2      \* largest configured thread count
MaxX == 2            \* largest tile column index of the bounding box
MaxY == 1            \* largest tile row index of the bounding box
MaxFaultyTasks == 1  \* tasks of one run that meet an environment fault
MaxMiss == 2         \* tiles of one run the AOI polygon does not intersect
MaxPre == 1          \* leading tasks whose raw file an earlier run may have left
MaxAois == 2         \* AOIs of one batch of Extractor.process
MaxRecords == 2      \* inventory records of one AOI
MaxLanes == 3        \* largest thread count getTaskList is examined with
MaxTilerZoom == 3    \* largest zoom level the tiler functions are examined at
MaxPixel == 6        \* largest small pixel coordinate given to PixelsToTile
MaxTileSize == 3     \* largest small tile size given to PixelsToTile

\* ------------------------------------------------------ program constants
max_tries == 3       \* scraper.py:122
SleepRange == 5      \* scraper.py:148, random.randrange( 5 )

Zoom == 5
Format == "png"
Formats == {"png", "tif"}
Tilers == {"mercator", "slippy"}
UriTemplate == "uri"

\* the URI template of another endpoint
OtherTemplate == "uri2"

\* the templates Downloader.process can be called with
UriTemplates == {UriTemplate, OtherTemplate}

\* ------------------------------------------------------------ value sets
\* result of one pass through the try block of getTile (lines 125-141)
\*   ok          GET answered 2xx, body streamed to the file
\*   http_error  GET answered with an error status; requests.get does not
\*               raise, the error body is streamed to the file
\*   net_error   requests.get raises (connection error), file never opened
\*   timeout     requests.get raises (timeout), file never opened
\*   body_error  copyfileobj raises after open( pathname, 'wb' )
AttemptOutcome == {"ok", "http_error", "net_error", "timeout", "body_error"}
Raising == {"net_error", "timeout", "body_error"}

\* gdal.Translate: returns a dataset, raises, or (no UseExceptions call in
\* the repository) reports the failure by returning None
TranslateOutcome == {"ok", "raise", "none"}
\* gdal.Warp: same three outcomes
WarpOutcome == {"ok", "raise", "none"}

Min(a, b) == IF a < b THEN a ELSE b
Max(a, b) == IF a > b THEN a ELSE b

\* ------------------------------------------------------------- file names
\* file names are the names inside out_path, as the strings the code builds
\* mutant of TilePathname: the row index is left out of the name
TilePathnameNoRow(zoom, x, y, format) ==
    "tile_" \o ToString(zoom) \o "_" \o ToString(x) \o "." \o format

\* 'tile_{}_{}_{}.{}'.format( zoom, x, y, format )
TilePathname(zoom, x, y, format) ==
    "tile_" \o ToString(zoom) \o "_" \o ToString(x) \o "_" \o ToString(y)
            \o "." \o format

\* position of the last '.' among the first i characters of s, 0 if none
RECURSIVE LastDot(_, _)
LastDot(s, i) ==
    IF i = 0 THEN 0
    ELSE IF SubSeq(s, i, i) = "." THEN i ELSE LastDot(s, i - 1)

\* os.path.splitext( pathname )[ 0 ]
SplitExtRoot(pathname) ==
    IF LastDot(pathname, Len(pathname)) <= 1 THEN pathname
    ELSE SubSeq(pathname, 1, LastDot(pathname, Len(pathname)) - 1)

\* os.path.splitext( task[ 'pathname' ] )[ 0 ] + '.tif'
GeoPathname(pathname) == SplitExtRoot(pathname) \o ".tif"

\* out_pathname: '{name}_{zoom}_{distance}.TIF' with name = 'aoi-{idx}'
OutPathname == "aoi-0_" \o ToString(Zoom) \o "_0.TIF"

\* uri.format( **values )
FormatUri(template, zoom, x, y, format) ==
    [template |-> template, z |-> zoom, x |-> x, y |-> y, format |-> format]

\* ------------------------------------------------------------ getTaskList
\* mutant of YRange: the row bounds are taken as given
YRangeAsGiven(c) == <<c.y1, c.y2>>

\* line 113: range( min( y1, y2 ), max( y1, y2 ) + 1 )
YRange(c) == <<Min(c.y1, c.y2), Max(c.y1, c.y2)>>

\* mutant of RowStartIndex: every row starts at lane 0
RowStartIndexReset(index) == 0

\* the lane index a row starts with is the one the row before ended with:
\* index is set once, at line 112, outside both loops
RowStartIndex(index) == index

\* mutant of NextIndex: the wrap comes one lane early
NextIndexEarlyWrap(index, threads) ==
    IF index + 1 >= threads - 1 THEN 0 ELSE index + 1

\* lines 125-129
NextIndex(index, threads) == IF index + 1 = threads THEN 0 ELSE index + 1

\* line 121 with the template made part of the file name
TaskPathnameByUri(c, x, y) ==
    TilePathname(c.zoom, x, y, c.format) \o "." \o c.uri

\* line 121: the values the pathname of a task is made of
TaskPathname(c, x, y) == TilePathname(c.zoom, x, y, c.format)

RECURSIVE taskLoop(_, _, _, _, _)
taskLoop(c, y, x, tasklist, index) ==
    IF y > YRange(c)[2] THEN tasklist
    ELSE IF x > c.x2
           THEN taskLoop(c, y + 1, c.x1, tasklist, RowStartIndex(index))
    ELSE LET task == [xyz |-> <<x, y, c.zoom>>,
                      uri |-> FormatUri(c.uri, c.zoom, x, y, c.format),
                      pathname |-> TaskPathname(c, x, y)]
             appended == [tasklist EXCEPT ![index + 1] = Append(@, task)]
         IN  taskLoop(c, y, x + 1, appended, NextIndex(index, c.threads))

\* lanes are numbered 1..threads here, 0..threads-1 in the code
getTaskList(c) ==
    taskLoop(c, YRange(c)[1], c.x1, [t \in 1..c.threads |-> <<>>], 0)

\* the tasks of a list of lanes
TaskSet(tl) == UNION {{tl[l][i] : i \in 1..Len(tl[l])} : l \in DOMAIN tl}

\* ------------------------------------------------------------------ state
VARIABLES
    cfg,        \* endpoint configuration, AOI, arguments and initial out_path
    fs,         \* files of out_path: pathname -> content
    dirExists,  \* os.path.exists( out_path )
    pc,         \* position of the main thread in Downloader.process
    tasklist,   \* result of getTaskList, one task sequence per lane
    started,    \* number of obj.start() calls made: threads that run
    joined,     \* number of threads the join loop has passed
    wk,         \* per worker: position in run / getTile and its locals
    tiles,      \* per worker: self._tiles
    status,     \* per tile: what the worker did with its task
    requested,  \* the uris requests.get has been called with
    merge,      \* the gdal.Warp invocations: count, raster list, outcome
    removed,    \* pathnames deleted by the cleanup of process
    faulty,     \* number of tasks that have met an environment fault
    consumed,   \* per tile: the workers that took its task, in order
    ex,         \* Extractor.process: position, arguments, output files
    tq          \* one call of a tiler function: its arguments and results

vars == <<cfg, fs, dirExists, pc, tasklist, started, joined, wk, tiles,
          status, requested, merge, removed, faulty, consumed, ex, tq>>

Lanes == 1..cfg.threads

\* os.path.exists( pathname )
exists(files, pathname) == pathname \in DOMAIN files

\* open( pathname, 'wb' ) followed by the (possibly interrupted) copy
WriteFile(files, pathname, content) == (pathname :> content) @@ files

\* mutant of RemoveFiles: the removal is forgotten
RemoveFilesKept(files, pathnames) == files

\* os.remove( f ) for each f of pathnames
RemoveFiles(files, pathnames) == [p \in (DOMAIN files) \ pathnames |-> files[p]]

\* a fault may be injected into the current task of worker w
MayFault(w) == wk[w].hit \/ faulty < MaxFaultyTasks
Faulty(w) == IF wk[w].hit THEN faulty ELSE faulty + 1

Misses == Cardinality({t \in DOMAIN status : status[t] = "skipped"})

\* the locals of a worker before its first task
WorkerInit ==
    [pc |-> "unstarted", i |-> 0, tries |-> 0, fetch |-> "Idle", gets |-> 0,
     sleeps |-> 0, nap |-> 0, existed |-> FALSE, last |-> "none",
     hit |-> FALSE, bboxCrs |-> "none", geomCrs |-> "none", io |-> "none"]

\* Extractor.process not running
ExIdle ==
    [pc |-> "idle", info_only |-> FALSE, overwrite |-> FALSE,
     max_downloads |-> <<>>, naois |-> 0, a |-> 0, n |-> 0, r |-> 0,
     downloads |-> 0, outs |-> {}, dirs |-> {}, calls |-> <<>>,
     skipped |-> {}, layout |-> "own", foreign |-> {},
     raisedBy |-> "none"]

\* no tiler function under examination
TqIdle ==
    [op |-> "idle", src |-> "none", tiler |-> "mercator", lat |-> 0,
     lon |-> 0, zoom |-> 0, px |-> 0, py |-> 0, tileSize |-> 0, tx |-> 0,
     ty |-> 0, bounds |-> <<0, 0, 0, 0>>, quadKey |-> "",
     google |-> <<0, 0>>, back |-> <<0, 0>>]

\* raw tile files an earlier run, called with UriTemplate, may have left in
\* out_path
PreCandidates(c) ==
    {t.pathname : t \in {k \in TaskSet(getTaskList([c EXCEPT
                                                      !.uri = UriTemplate])) :
                            k.xyz[1] < c.x1 + MaxPre /\ k.xyz[2] = 0}}

Configs ==
    [threads : 1..MaxThreads, x1 : 0..1, x2 : 0..MaxX, y1 : 0..MaxY,
     y2 : {0}, zoom : {Zoom}, format : {Format}, uri : {UriTemplate},
     geomNone : BOOLEAN, tiler : Tilers]

Init ==
    /\ \E c \in Configs : \E pre \in SUBSET PreCandidates(c) :
          /\ cfg = [threads |-> c.threads, x1 |-> c.x1, x2 |-> c.x2,
                    y1 |-> c.y1, y2 |-> c.y2, zoom |-> c.zoom,
                    format |-> c.format, uri |-> c.uri,
                    geomNone |-> c.geomNone, tiler |-> c.tiler, pre |-> pre]
          /\ fs = [p \in pre |-> "old"]
          /\ dirExists \in (IF pre = {} THEN BOOLEAN ELSE {TRUE})
          /\ status = [t \in {k.xyz : k \in TaskSet(getTaskList(c))} |-> "todo"]
    /\ pc = "makedirs"
    /\ tasklist = <<>>
    /\ started = 0
    /\ joined = 0
    /\ wk = [w \in Lanes |-> WorkerInit]
    /\ tiles = [w \in Lanes |-> <<>>]
    /\ requested = {}
    /\ merge = [calls |-> 0, args |-> <<>>, result |-> "none"]
    /\ removed = {}
    /\ faulty = 0
    /\ consumed = [t \in DOMAIN status |-> <<>>]
    /\ ex = ExIdle
    /\ tq = TqIdle

\* ------------------------------------------------- Downloader.process
\* lines 51-54: os.makedirs may raise
MakeDirs ==
    /\ pc = "makedirs"
    /\ IF dirExists
         THEN pc' = "tasklist" /\ UNCHANGED dirExists
         ELSE \E ok \in BOOLEAN :
                 IF ok THEN dirExists' = TRUE /\ pc' = "tasklist"
                       ELSE pc' = "makedirs_error" /\ UNCHANGED dirExists
    /\ UNCHANGED <<cfg, fs, tasklist, started, joined, wk, tiles, status,
                   requested, merge, removed, faulty, consumed, ex,
                   tq>>

\* lines 56-67
GetTaskList ==
    /\ pc = "tasklist"
    /\ tasklist' = getTaskList(cfg)
    /\ pc' = "start"
    /\ UNCHANGED <<cfg, fs, dirExists, started, joined, wk, tiles, status,
                   requested, merge, removed, faulty, consumed, ex,
                   tq>>

\* TileScraper.__init__, lines 36-47: 'geometry' is always a key of the
\* config built by process, so the reprojection runs on the geometry even
\* when it is None, and shapely.ops.transform( f, None ) raises
ScraperInit(c) == IF c.geomNone THEN "raise" ELSE "ok"

\* lines 69-73, one iteration: the thread runs from obj.start() on, whether
\* the main thread has reached threads.append( obj ) of line 74 or not; the
\* list threads is read by the main thread alone, after the loop
StartWorker ==
    /\ pc = "start"
    /\ started < Len(tasklist)
    /\ IF ScraperInit(cfg) = "raise"
         THEN /\ pc' = "init_error"
              /\ UNCHANGED <<started, wk>>
         ELSE /\ started' = started + 1
              /\ wk' = [wk EXCEPT ![started + 1].pc = "next"]
              /\ pc' = IF started + 1 = Len(tasklist) THEN "join" ELSE "start"
    /\ UNCHANGED <<cfg, fs, dirExists, tasklist, joined, tiles, status,
                   requested, merge, removed, faulty, consumed, ex,
                   tq>>

\* mutant of Joinable: the join does not wait for the thread
JoinableAtOnce(w) == TRUE

\* Thread.join returns once the thread has ended, normally or by an
\* exception nothing caught
Joinable(w) == wk[w].pc \in {"done", "crashed"}

\* lines 77-78, one iteration
Join ==
    /\ pc = "join"
    /\ joined < started
    /\ Joinable(joined + 1)
    /\ joined' = joined + 1
    /\ pc' = IF joined + 1 = started THEN "merge" ELSE "join"
    /\ UNCHANGED <<cfg, fs, dirExists, tasklist, started, wk, tiles, status,
                   requested, merge, removed, faulty, consumed, ex,
                   tq>>

\* lines 81-83: tiles.extend( thread._tiles ) for the n threads in order
RECURSIVE Collect(_, _)
Collect(lists, n) ==
    IF n = 0 THEN <<>> ELSE Collect(lists, n - 1) \o lists[n]

\* the engine can only succeed on a non-empty list of existing rasters
WarpResults(files, args) ==
    IF args # <<>> /\ \A k \in 1..Len(args) : exists(files, args[k])
      THEN WarpOutcome ELSE WarpOutcome \ {"ok"}

\* line 86 and what follows it: an exception leaves process, a None result
\* is not looked at
AfterWarp(r) == IF r = "raise" THEN "warp_error" ELSE "cleanup"

\* lines 80-86
Warp ==
    /\ pc = "merge"
    /\ LET args == Collect(tiles, started) IN
       \E r \in WarpResults(fs, args) :
          /\ merge' = [calls |-> merge.calls + 1, args |-> args, result |-> r]
          /\ fs' = IF r = "ok" THEN WriteFile(fs, OutPathname, "mosaic") ELSE fs
          /\ pc' = AfterWarp(r)
    /\ UNCHANGED <<cfg, dirExists, tasklist, started, joined, wk, tiles,
                   status, requested, removed, faulty, consumed, ex,
                   tq>>

\* mutant of GlobTile: the pattern matches the raw tiles only
GlobTileRaw(files) ==
    {p \in DOMAIN files : /\ Len(p) >= 4
                          /\ SubSeq(p, 1, 4) = "tile"
                          /\ SubSeq(p, Len(p) - 3, Len(p)) # ".tif"}

\* line 89: glob.glob( os.path.join( out_path, 'tile*' ) )
GlobTile(files) ==
    {p \in DOMAIN files : Len(p) >= 4 /\ SubSeq(p, 1, 4) = "tile"}

\* lines 88-91
Cleanup ==
    /\ pc = "cleanup"
    /\ fs' = RemoveFiles(fs, GlobTile(fs))
    /\ removed' = GlobTile(fs)
    /\ pc' = "rmdir"
    /\ UNCHANGED <<cfg, dirExists, tasklist, started, joined, wk, tiles,
                   status, requested, merge, faulty, consumed, ex,
                   tq>>

\* line 94: glob.glob( os.path.join( out_path, '*' ) ); the pattern '*'
\* does not match a name that begins with a dot
GlobAll(files) == {p \in DOMAIN files : SubSeq(p, 1, 1) # "."}

\* lines 94-95: len( glob.glob( os.path.join( out_path, '*' ) ) ) == 0
NothingLeft(files) == GlobAll(files) = {}

\* lines 93-98: os.rmdir raises OSError on a directory that still holds a
\* file (one glob did not list); nothing catches it
RemoveDir ==
    /\ pc = "rmdir"
    /\ IF NothingLeft(fs)
         THEN IF DOMAIN fs = {}
                THEN dirExists' = FALSE /\ pc' = "done"
                ELSE dirExists' = dirExists /\ pc' = "rmdir_error"
         ELSE dirExists' = dirExists /\ pc' = "done"
    /\ UNCHANGED <<cfg, fs, tasklist, started, joined, wk, tiles, status,
                   requested, merge, removed, faulty, consumed, ex,
                   tq>>

\* ------------------------------------------------------ TileScraper.run
Task(w) == tasklist[w][wk[w].i]

\* lines 64-74: results the intersection test can have
Intersections(c) == IF c.geomNone THEN {TRUE} ELSE BOOLEAN

\* tiler.py 166-171: MercatorTiler.TileBounds returns metres of the
\* spherical Mercator projection; tiler.py 282-285: SlippyTiler.TileBounds
\* returns degrees of latitude and longitude
TileBoundsCrs(c) == IF c.tiler = "slippy" THEN "EPSG:4326" ELSE "EPSG:3857"

\* scraper.py 42-47: the AOI is always reprojected from EPSG:4326 to
\* EPSG:3857, whatever the tiler
GeometryCrs(c) == "EPSG:3857"

\* mutant of EnterTask: getTile fetches without looking for the file
EnterTaskRefetch(files, fresh, task, intersects) ==
    IF ~intersects THEN [fresh EXCEPT !.pc = "next"]
    ELSE [fresh EXCEPT !.pc = "attempt", !.tries = 1, !.fetch = "Attempting"]

\* mutant of EnterTask: the result of the intersection test is ignored
EnterTaskUnfiltered(files, fresh, task, intersects) ==
    IF exists(files, task.pathname)
      THEN [fresh EXCEPT !.pc = "fetched", !.existed = TRUE]
      ELSE [fresh EXCEPT !.pc = "attempt", !.tries = 1, !.fetch = "Attempting"]

\* lines 77-80 and 118-122: the worker's locals after the intersection test
\* and, if the tile intersects, the entry of getTile
EnterTask(files, fresh, task, intersects) ==
    IF ~intersects THEN [fresh EXCEPT !.pc = "next"]
    ELSE IF exists(files, task.pathname)
           THEN [fresh EXCEPT !.pc = "fetched", !.existed = TRUE]
           ELSE [fresh EXCEPT !.pc = "attempt", !.tries = 1,
                              !.fetch = "Attempting"]

\* lines 60-80: loop head, intersection test, call of getTile
NextTask(w) ==
    /\ wk[w].pc = "next"
    /\ IF wk[w].i = Len(tasklist[w])
         THEN /\ wk' = [wk EXCEPT ![w].pc = "done"]
              /\ UNCHANGED <<status, consumed>>
         ELSE LET task == tasklist[w][wk[w].i + 1]
                  fresh == [WorkerInit EXCEPT
                              !.i = wk[w].i + 1,
                              !.bboxCrs = IF cfg.geomNone THEN "none"
                                          ELSE TileBoundsCrs(cfg),
                              !.geomCrs = IF cfg.geomNone THEN "none"
                                          ELSE GeometryCrs(cfg)]
              IN \E intersects \in Intersections(cfg) :
                   /\ ~intersects => Misses < MaxMiss
                   /\ consumed' = [consumed EXCEPT ![task.xyz] = Append(@, w)]
                   /\ wk' = [wk EXCEPT ![w] =
                                EnterTask(fs, fresh, task, intersects)]
                   /\ status' = IF intersects THEN status
                                ELSE [status EXCEPT ![task.xyz] = "skipped"]
    /\ UNCHANGED <<cfg, fs, dirExists, pc, tasklist, started, joined, tiles,
                   requested, merge, removed, faulty, ex,
                   tq>>

\* mutant of AfterGet: the body is never stored
AfterGetNothing(files, pathname, o) == files

\* lines 137-139: what one GET leaves at pathname
AfterGet(files, pathname, o) ==
    CASE o \in {"ok", "http_error"} -> WriteFile(files, pathname, "body")
      [] o = "body_error" -> WriteFile(files, pathname, "partial")
      [] OTHER -> files

\* lines 125-147: the end of one pass through the try block; only an
\* exception takes the except branch, requests.get does not raise on an
\* error status
AfterAttempt(l, o) ==
    IF o \in Raising
      THEN [l EXCEPT !.tries = @ + 1, !.nap = 0, !.last = o, !.hit = TRUE,
                     !.fetch = "Retrying", !.pc = "sleep", !.io = "none"]
      ELSE [l EXCEPT !.nap = 0, !.last = o, !.hit = (@ \/ o # "ok"),
                     !.fetch = "Success", !.pc = "fetched", !.io = "none"]

\* line 137: requests.get sends the GET and waits for the response; the
\* other threads run during the wait
AttemptSend(w) ==
    /\ wk[w].pc = "attempt"
    /\ wk[w].io = "none"
    /\ requested' = requested \cup {Task(w).uri}
    /\ wk' = [wk EXCEPT ![w].io = "get"]
    /\ UNCHANGED <<cfg, fs, dirExists, pc, tasklist, started, joined, tiles,
                   status, merge, removed, faulty, consumed, ex,
                   tq>>

\* what requests.get can end with
ResponseOutcome == AttemptOutcome \ {"body_error"}

\* line 138: open( pathname, 'wb' ) creates the file, or empties it
Opened(files, pathname) == WriteFile(files, pathname, "partial")

\* lines 137-139: requests.get raises, or returns the response whatever its
\* status; open creates the file and copyfileobj waits for the body
AttemptResponse(w) ==
    /\ wk[w].pc = "attempt"
    /\ wk[w].io = "get"
    /\ \E o \in ResponseOutcome :
          /\ o # "ok" => MayFault(w)
          /\ faulty' = IF o = "ok" THEN faulty ELSE Faulty(w)
          /\ IF o \in Raising
               THEN /\ fs' = fs
                    /\ wk' = [wk EXCEPT ![w] =
                                AfterAttempt([wk[w] EXCEPT !.gets = @ + 1], o)]
               ELSE /\ fs' = Opened(fs, Task(w).pathname)
                    /\ wk' = [wk EXCEPT ![w].gets = @ + 1,
                                        ![w].last = o,
                                        ![w].hit = (@ \/ o # "ok"),
                                        ![w].io = "copy"]
    /\ UNCHANGED <<cfg, dirExists, pc, tasklist, started, joined, tiles,
                   status, requested, merge, removed, consumed, ex,
                   tq>>

\* line 139: what copyfileobj can end with
BodyOutcome == {"ok", "body_error"}

\* lines 139-147: copyfileobj has stored the body, or raises with a part of
\* it stored
AttemptBody(w) ==
    /\ wk[w].pc = "attempt"
    /\ wk[w].io = "copy"
    /\ \E b \in BodyOutcome :
          LET o == IF b = "ok" THEN wk[w].last ELSE b
          IN  /\ b # "ok" => MayFault(w)
              /\ faulty' = IF b = "ok" THEN faulty ELSE Faulty(w)
              /\ fs' = AfterGet(fs, Task(w).pathname, o)
              /\ wk' = [wk EXCEPT ![w] = AfterAttempt(wk[w], o)]
    /\ UNCHANGED <<cfg, dirExists, pc, tasklist, started, joined, tiles,
                   status, requested, merge, removed, consumed, ex,
                   tq>>

\* mutant of Retry: the loop test is off by one
RetryOnceMore(tries) == tries <= max_tries + 1

\* line 123: the loop test
Retry(tries) == tries <= max_tries

\* mutant of SleepSeconds: the upper end is included
SleepSecondsInclusive == 0..SleepRange

\* line 148: the values of random.randrange( 5 )
SleepSeconds == 0..(SleepRange - 1)

\* line 148, then lines 123 and 151
Sleep(w) ==
    /\ wk[w].pc = "sleep"
    /\ \E d \in SleepSeconds :
          wk' = [wk EXCEPT ![w].sleeps = @ + 1,
                           ![w].nap = d,
                           ![w].last = "none",
                           ![w].fetch = IF Retry(wk[w].tries)
                                          THEN "Attempting" ELSE "Failed",
                           ![w].pc = IF Retry(wk[w].tries)
                                       THEN "attempt" ELSE "remove"]
    /\ UNCHANGED <<cfg, fs, dirExists, pc, tasklist, started, joined, tiles,
                   status, requested, merge, removed, faulty, consumed, ex,
                   tq>>

\* line 152: os.remove raises FileNotFoundError when no attempt got as far
\* as creating the file; nothing in getTile or run catches it
RemoveFailed(w) ==
    /\ wk[w].pc = "remove"
    /\ IF exists(fs, Task(w).pathname)
         THEN /\ fs' = RemoveFiles(fs, {Task(w).pathname})
              /\ wk' = [wk EXCEPT ![w].pc = "fetched", ![w].nap = 0]
         ELSE /\ wk' = [wk EXCEPT ![w].pc = "crashed", ![w].nap = 0]
              /\ UNCHANGED fs
    /\ UNCHANGED <<cfg, dirExists, pc, tasklist, started, joined, tiles,
                   status, requested, merge, removed, faulty, consumed, ex,
                   tq>>

\* mutant of Recorded: the path is put in front of the list
RecordedInFront(lst, pathname, tr) ==
    IF tr = "raise" THEN lst ELSE <<pathname>> \o lst

\* lines 94-107: the path is recorded unless gdal.Translate raises
Recorded(lst, pathname, tr) ==
    IF tr = "raise" THEN lst ELSE Append(lst, pathname)

\* lines 81-107
Georeference(w) ==
    /\ wk[w].pc = "fetched"
    /\ LET task == Task(w)
           pathname == GeoPathname(task.pathname)
       IN IF ~exists(fs, task.pathname)
            THEN /\ status' = [status EXCEPT ![task.xyz] = "failed"]
                 /\ UNCHANGED <<fs, tiles, faulty>>
            ELSE \E opened \in BOOLEAN :
                   IF ~opened
                     THEN /\ MayFault(w)
                          /\ faulty' = Faulty(w)
                          /\ status' = [status EXCEPT ![task.xyz] = "unopened"]
                          /\ UNCHANGED <<fs, tiles>>
                     ELSE \E tr \in TranslateOutcome :
                            /\ tr # "ok" => MayFault(w)
                            /\ faulty' = IF tr = "ok" THEN faulty ELSE Faulty(w)
                            /\ fs' = IF tr = "ok"
                                       THEN WriteFile(fs, pathname, "geotiff")
                                       ELSE fs
                            /\ tiles' = [tiles EXCEPT ![w] =
                                            Recorded(@, pathname, tr)]
                            /\ status' = [status EXCEPT ![task.xyz] =
                                            CASE tr = "ok" -> "georef"
                                              [] tr = "raise" -> "xlatefail"
                                              [] tr = "none" -> "xlatenone"]
    /\ wk' = [wk EXCEPT ![w] = [WorkerInit EXCEPT !.pc = "next", !.i = wk[w].i]]
    /\ UNCHANGED <<cfg, dirExists, pc, tasklist, started, joined, requested,
                   merge, removed, consumed, ex,
                   tq>>

Next ==
    \/ MakeDirs
    \/ GetTaskList
    \/ StartWorker
    \/ Join
    \/ Warp
    \/ Cleanup
    \/ RemoveDir
    \/ \E w \in Lanes : NextTask(w)
    \/ \E w \in Lanes : AttemptSend(w)
    \/ \E w \in Lanes : AttemptResponse(w)
    \/ \E w \in Lanes : AttemptBody(w)
    \/ \E w \in Lanes : Sleep(w)
    \/ \E w \in Lanes : RemoveFailed(w)
    \/ \E w \in Lanes : Georeference(w)

Spec == Init /\ [][Next]_vars

\* ------------------------------- Downloader.process in a used directory
\* a run, with either URI template, in an out_path where an earlier run with
\* UriTemplate may have left raw tiles
\* files an earlier run or the user may have left that no glob pattern of
\* process lists
HiddenCandidates == {".keep"}

RerunConfigs ==
    [threads : 1..MaxThreads, x1 : 0..1, x2 : 0..MaxX, y1 : {0},
     y2 : {0}, zoom : {Zoom}, format : {Format}, uri : UriTemplates,
     geomNone : {FALSE}, tiler : {"mercator"}]

InitRerun ==
    /\ \E c \in RerunConfigs : \E pre \in SUBSET PreCandidates(c) :
       \E hidden \in SUBSET HiddenCandidates :
          /\ cfg = [threads |-> c.threads, x1 |-> c.x1, x2 |-> c.x2,
                    y1 |-> c.y1, y2 |-> c.y2, zoom |-> c.zoom,
                    format |-> c.format, uri |-> c.uri,
                    geomNone |-> c.geomNone, tiler |-> c.tiler, pre |-> pre]
          /\ fs = [p \in pre \cup hidden |-> "old"]
          /\ dirExists \in (IF pre \cup hidden = {} THEN BOOLEAN ELSE {TRUE})
          /\ status = [t \in {k.xyz : k \in TaskSet(getTaskList(c))} |-> "todo"]
    /\ pc = "makedirs"
    /\ tasklist = <<>>
    /\ started = 0
    /\ joined = 0
    /\ wk = [w \in Lanes |-> WorkerInit]
    /\ tiles = [w \in Lanes |-> <<>>]
    /\ requested = {}
    /\ merge = [calls |-> 0, args |-> <<>>, result |-> "none"]
    /\ removed = {}
    /\ faulty = 0
    /\ consumed = [t \in DOMAIN status |-> <<>>]
    /\ ex = ExIdle
    /\ tq = TqIdle

SpecRerun == InitRerun /\ [][Next]_vars

\* ------------------------------------------- getTaskList on its own
\* Downloader.process at line 67, for every bounding box getTileMinMax can
\* hand over: the corners come in either order
InitTaskList ==
    /\ \E c \in [threads : 1..MaxLanes, x1 : 0..MaxX, x2 : 0..MaxX,
                 y1 : 0..MaxY, y2 : 0..MaxY, zoom : {Zoom},
                 format : Formats, uri : {UriTemplate}] :
          /\ cfg = [threads |-> c.threads, x1 |-> c.x1, x2 |-> c.x2,
                    y1 |-> c.y1, y2 |-> c.y2, zoom |-> c.zoom,
                    format |-> c.format, uri |-> c.uri,
                    geomNone |-> FALSE, tiler |-> "mercator", pre |-> {}]
          /\ status = [t \in {k.xyz : k \in TaskSet(getTaskList(c))} |-> "todo"]
    /\ fs = [p \in {} |-> "old"]
    /\ dirExists = TRUE
    /\ pc = "tasklist"
    /\ tasklist = <<>>
    /\ started = 0
    /\ joined = 0
    /\ wk = [w \in Lanes |-> WorkerInit]
    /\ tiles = [w \in Lanes |-> <<>>]
    /\ requested = {}
    /\ merge = [calls |-> 0, args |-> <<>>, result |-> "none"]
    /\ removed = {}
    /\ faulty = 0
    /\ consumed = [t \in DOMAIN status |-> <<>>]
    /\ ex = ExIdle
    /\ tq = TqIdle

NextTaskList == GetTaskList

SpecTaskList == InitTaskList /\ [][NextTaskList]_vars

\* ---------------------------------------------------- Extractor.process
\* args.max_downloads is None (argparse default, run.py:49) or an int:
\* <<>> stands for None, <<m>> for the int m
NoLimit == <<>>

\* run.py:49 is type=int with no range check: zero and negative limits are
\* accepted; the least limit looked at
MinDownloads == -1

\* the values args.max_downloads is given
Limits == {NoLimit} \cup {<<m>> : m \in MinDownloads..MaxRecords}

\* getInventory returned None
NoInventory == -1

\* an exception left getInventory or filterInventory (lines 49-57), as the
\* KeyError of securewatch.py:56 for a platform the table does not have
InventoryRaises == -2

\* the records ( aoi, record ) a batch can have
Records == (1..MaxAois) \X (1..MaxRecords)

\* how getPathname of the endpoint lays out the records of one AOI:
\*   own   a directory for each record (securewatch, sentinelhub: records of
\*         different acquisition times)
\*   dir   one directory, a file for each record (records of one
\*         acquisition time, different cell or uid)
\*   file  one pathname for all records (mapserver, earthservice: the name
\*         is made of the AOI and the zoom alone)
Layouts == {"own", "dir", "file"}

\* os.path.dirname( out_pathname ) is the same for records p and q
SameDir(layout, p, q) == p[1] = q[1] /\ (layout # "own" \/ p = q)

\* out_pathname is the same for records p and q
SameFile(layout, p, q) == p[1] = q[1] /\ (layout = "file" \/ p = q)

\* the records among rs whose directory, whose pathname is that of record p
DirMates(layout, p, rs) == {q \in rs : SameDir(layout, p, q)}
FileMates(layout, p, rs) == {q \in rs : SameFile(layout, p, q)}

\* the directories that hold a file which is no record's output and which
\* the patterns 'tile*' and '*' of Downloader.process treat as any other
\* file: none, or the directory of one record; the same choices serve for a
\* directory that exists and is empty
ForeignChoices == {{}} \cup {{p} : p \in Records}

\* how the call self._downloader.process( ... ) of line 78 can end:
\*   ok      returned, gdal.Warp wrote out_pathname
\*   nofile  returned, gdal.Warp had failed by returning None
\*   raise   an exception left Downloader.process
DownloaderOutcome == {"ok", "nofile", "raise"}

\* the variables of one Downloader.process run
dvars == <<cfg, fs, dirExists, pc, tasklist, started, joined, wk, tiles,
           status, requested, merge, removed, faulty, consumed>>

\* no Downloader.process run is in progress
IdleDownloader ==
    /\ cfg = [threads |-> 1, x1 |-> 0, x2 |-> 0, y1 |-> 0, y2 |-> 0,
              zoom |-> Zoom, format |-> Format, uri |-> UriTemplate,
              geomNone |-> FALSE, tiler |-> "mercator", pre |-> {}]
    /\ fs = [p \in {} |-> "old"]
    /\ dirExists = TRUE
    /\ status = [t \in {} |-> "todo"]
    /\ pc = "idle"
    /\ tasklist = <<>>
    /\ started = 0
    /\ joined = 0
    /\ wk = [w \in Lanes |-> WorkerInit]
    /\ tiles = [w \in Lanes |-> <<>>]
    /\ requested = {}
    /\ merge = [calls |-> 0, args |-> <<>>, result |-> "none"]
    /\ removed = {}
    /\ faulty = 0
    /\ consumed = [t \in {} |-> <<>>]

\* the arguments and the batch Extractor.process is called with
InitExtractor ==
    /\ IdleDownloader
    /\ tq = TqIdle
    /\ \E io \in BOOLEAN, ow \in BOOLEAN,
          md \in Limits, na \in 0..MaxAois,
          pre \in SUBSET Records, lay \in Layouts,
          other \in ForeignChoices, empty \in ForeignChoices :
          LET files == UNION {FileMates(lay, p, Records) : p \in pre}
              kept == UNION {DirMates(lay, p, Records) : p \in other}
              paths == UNION {DirMates(lay, p, Records) :
                                 p \in pre \cup other \cup empty}
          IN  ex = [ExIdle EXCEPT !.pc = "aois", !.info_only = io,
                                  !.overwrite = ow, !.max_downloads = md,
                                  !.naois = na, !.outs = files,
                                  !.dirs = paths, !.layout = lay,
                                  !.foreign = kept]

\* lines 40-43: getAoIs gives None when no AOI could be loaded
ExGetAoIs ==
    /\ ex.pc = "aois"
    /\ ex' = [ex EXCEPT !.pc = IF ex.naois = 0 THEN "done" ELSE "aoi"]
    /\ UNCHANGED <<dvars, tq>>

\* lines 46-64: one iteration of the loop over the AOIs up to the loop over
\* the records; the loop's end is the return of line 96
ExNextAoi ==
    /\ ex.pc = "aoi"
    /\ IF ex.a = ex.naois
         THEN ex' = [ex EXCEPT !.pc = "done"]
         ELSE \E inventory \in {InventoryRaises, NoInventory}
                                  \cup (0..MaxRecords) :
                 IF inventory = InventoryRaises
                   THEN ex' = [ex EXCEPT !.a = @ + 1, !.pc = "raised",
                                         !.raisedBy = "getInventory"]
                 ELSE IF inventory = NoInventory \/ ex.info_only
                   THEN ex' = [ex EXCEPT !.a = @ + 1]
                   ELSE ex' = [ex EXCEPT !.a = @ + 1, !.n = inventory,
                                         !.r = 0, !.downloads = 0,
                                         !.pc = "record"]
    /\ UNCHANGED <<dvars, tq>>

\* lines 91-93: the test that ends the loop over the records
ExBreak(max_downloads, downloads) ==
    max_downloads # NoLimit /\ downloads >= max_downloads[1]

\* line 71 with the test inverted away: every record is downloaded
ShouldDownloadAlways(present, overwrite) == TRUE

\* line 71: if not os.path.exists( out_pathname ) or args.overwrite
ShouldDownload(present, overwrite) == ~present \/ overwrite

\* lines 65-93: one iteration of the loop over the records; nothing catches
\* an exception of os.makedirs or of Downloader.process. The directory and
\* the file of a record are those of every record getPathname gives the same
\* names, in this inventory or not. When gdal.Warp wrote nothing and neither
\* an output nor another file is in the directory, the cleanup of
\* Downloader.process finds it empty and removes it (downloader.py:94-96)
ExRecord ==
    /\ ex.pc = "record"
    /\ IF ex.r = ex.n
         THEN ex' = [ex EXCEPT !.pc = "aoi"]
         ELSE LET out == <<ex.a, ex.r + 1>>
                  path == DirMates(ex.layout, out, Records)
                  file == FileMates(ex.layout, out, Records)
                  after == IF ExBreak(ex.max_downloads, ex.downloads + 1)
                             THEN "aoi" ELSE "record"
              IN  IF ShouldDownload(out \in ex.outs, ex.overwrite)
                    THEN \E made \in (IF out \in ex.dirs THEN {TRUE}
                                                         ELSE BOOLEAN) :
                         \E o \in DownloaderOutcome :
                            IF ~made
                              THEN ex' = [ex EXCEPT !.r = @ + 1,
                                                    !.pc = "raised",
                                                    !.raisedBy = "makedirs"]
                              ELSE ex' = [ex EXCEPT
                                     !.r = @ + 1,
                                     !.dirs =
                                        IF o = "nofile"
                                           /\ path \cap (ex.outs \cup
                                                          ex.foreign) = {}
                                          THEN @ \ path
                                          ELSE @ \cup path,
                                     !.calls = Append(@, out),
                                     !.outs = IF o = "ok" THEN @ \cup file
                                                          ELSE @,
                                     !.downloads = IF o = "raise" THEN @
                                                                  ELSE @ + 1,
                                     !.raisedBy =
                                        IF o = "raise"
                                          THEN "Downloader.process" ELSE @,
                                     !.pc = IF o = "raise" THEN "raised"
                                                           ELSE after]
                    ELSE ex' = [ex EXCEPT !.r = @ + 1,
                                          !.skipped = @ \cup {out},
                                          !.downloads = @ + 1,
                                          !.pc = after]
    /\ UNCHANGED <<dvars, tq>>

NextExtractor ==
    \/ ExGetAoIs
    \/ ExNextAoi
    \/ ExRecord

SpecExtractor == InitExtractor /\ [][NextExtractor]_vars

\* ------------------------------------------------------------ tiler.py
\* Coordinates are floats in the code. Here latitudes and longitudes given
\* to a tiler are whole degrees, Mercator coordinates are whole metres,
\* pixel coordinates are whole pixels rounded up (which leaves
\* ceil( px / tileSize ) as it is) and the degrees SlippyTiler returns are
\* thousandths of a degree. The logarithm, tangent and arc tangent of the
\* latitude formulas are tabulated at the latitudes and tile edges used.

RECURSIVE Pow2(_)
Pow2(n) == IF n = 0 THEN 1 ELSE 2 * Pow2(n - 1)

\* math.ceil( a / float( b ) ) for b > 0
CeilDiv(a, b) == -((-a) \div b)

\* MercatorTiler.__init__: self._originShift, 20037508.342789244 metres
OriginShift == 20037508

\* MercatorTiler.__init__: self._tileSize
TileSize == 256

SampleLats == {-85, -60, -30, 0, 30, 60, 85}
SampleLons == {-180, -135, -130, -90, -10, 0, 45, 90, 100, 180}

\* tiler.py 117-119: the Mercator northing, in metres, of a latitude
MercatorNorthing ==
    (-85 :> -19971869) @@ (-60 :> -8399738) @@ (-30 :> -3503550) @@ (0 :> 0)
    @@ (30 :> 3503550) @@ (60 :> 8399738) @@ (85 :> 19971869)

\* tiler.py 113-120; originShift / 180 is taken as ( originShift / 4 ) / 45
LatLonToMeters(lat, lon) ==
    <<(lon * (OriginShift \div 4)) \div 45, MercatorNorthing[lat]>>

\* the whole metres of the coordinates whose float the code's arithmetic
\* takes past a tile edge: for longitude -135, lon * originShift / 180.0 and
\* then ( mx + originShift ) / res give 32.00000000000001 * 2**zoom, where
\* exact arithmetic gives 32 * 2**zoom
FloatPastEdge == {-15028131}

\* tiler.py 139-145 for one coordinate: ( m + originShift ) / res with
\* res = 2 * originShift / ( tileSize * 2**zoom ), rounded up to a pixel
MetersToPixels(m, zoom) ==
    LET q == (m + OriginShift) * Pow2(zoom)
        d == OriginShift \div 4
    IN  (TileSize \div 8) * (q \div d) + CeilDiv((q % d) * (TileSize \div 8), d)
            + (IF m \in FloatPastEdge THEN 1 ELSE 0)

\* mutant of PixelsToTile: the pixel is floor-divided by the tile size
PixelsToTileFloor(px, py, tileSize) == <<px \div tileSize, py \div tileSize>>

\* tiler.py 147-152
PixelsToTile(px, py, tileSize) ==
    <<CeilDiv(px, tileSize) - 1, CeilDiv(py, tileSize) - 1>>

\* tiler.py 160-164
MetersToTile(mx, my, zoom) ==
    PixelsToTile(MetersToPixels(mx, zoom), MetersToPixels(my, zoom), TileSize)

\* tiler.py 217-221
MercatorLatLonToTile(lat, lon, z) ==
    MetersToTile(LatLonToMeters(lat, lon)[1], LatLonToMeters(lat, lon)[2], z)

\* tiler.py 131-137 for one coordinate of a tile corner: px * res -
\* originShift, in metres
PixelsToMeters(px, zoom) ==
    ((px \div (TileSize \div 8)) * (OriginShift \div 4)) \div Pow2(zoom)
        - OriginShift

\* tiler.py 166-171: ( miny, minx, maxy, maxx ) in metres
MercatorTileBounds(tx, ty, zoom) ==
    <<PixelsToMeters(ty * TileSize, zoom), PixelsToMeters(tx * TileSize, zoom),
      PixelsToMeters((ty + 1) * TileSize, zoom),
      PixelsToMeters((tx + 1) * TileSize, zoom)>>

\* mutant of FlipY: the row is not flipped
FlipYNone(ty, zoom) == ty

\* tiler.py 205 (and 199): the row counted from the top
FlipY(ty, zoom) == (Pow2(zoom) - 1) - ty

\* ( v & ( 1 << k ) ) != 0, as 0 or 1
Bit(v, k) == (v \div Pow2(k)) % 2

\* tiler.py 206-213: the digits for the masks 1 << ( i - 1 ), i downwards
RECURSIVE QuadDigits(_, _, _)
QuadDigits(tx, ty, i) ==
    IF i = 0 THEN ""
    ELSE ToString(Bit(tx, i - 1) + 2 * Bit(ty, i - 1))
            \o QuadDigits(tx, ty, i - 1)

\* tiler.py 201-215
QuadTree(tx, ty, zoom) == QuadDigits(tx, FlipY(ty, zoom), zoom)

\* tiler.py 239-240
numTiles(z) == Pow2(z)

\* the unit of the tabulated relative y: 2**-20
RelScale == 1048576

\* tiler.py 245-248: the relative y of a latitude, from 0 at the northern
\* edge to 1 at the southern edge
SlippyRelY ==
    (-85 :> 1046858) @@ (-60 :> 744069) @@ (-30 :> 615959) @@ (0 :> 524288)
    @@ (30 :> 432616) @@ (60 :> 304506) @@ (85 :> 1717)

\* tiler.py 250-257: int( n * x ), int( n * y )
SlippyLatLonToTile(lat, lon, z) ==
    <<((lon + 180) * numTiles(z)) \div 360,
      (numTiles(z) * SlippyRelY[lat]) \div RelScale>>

\* tiler.py 287-288 at the tile edges: the latitude, in thousandths of a
\* degree, of the relative y k / 16, k = 0..16
SlippyEdgeLat ==
    <<85051, 82676, 79171, 74020, 66513, 55777, 40980, 21943, 0,
      -21943, -40980, -55777, -66513, -74020, -79171, -82676, -85051>>

\* tiler.py 266-273: ( lat1, lat2 ), northern edge first
LatBounds(y, z) ==
    <<SlippyEdgeLat[y * (16 \div numTiles(z)) + 1],
      SlippyEdgeLat[(y + 1) * (16 \div numTiles(z)) + 1]>>

\* tiler.py 275-280
LonBounds(x, z) ==
    <<-180000 + x * (360000 \div numTiles(z)),
      -180000 + x * (360000 \div numTiles(z)) + (360000 \div numTiles(z))>>

\* tiler.py 282-285: ( lat2, lon1, lat1, lon2 ), S,W,N,E
SlippyTileBounds(x, y, z) ==
    <<LatBounds(y, z)[2], LonBounds(x, z)[1],
      LatBounds(y, z)[1], LonBounds(x, z)[2]>>

\* self._tiler.LatLonToTile of the tiler Downloader.__init__ selected
LatLonToTile(tiler, lat, lon, z) ==
    IF tiler = "slippy" THEN SlippyLatLonToTile(lat, lon, z)
                        ELSE MercatorLatLonToTile(lat, lon, z)

\* self._tiler.TileBounds of the tiler Downloader.__init__ selected
TileBounds(tiler, tx, ty, z) ==
    IF tiler = "slippy" THEN SlippyTileBounds(tx, ty, z)
                        ELSE MercatorTileBounds(tx, ty, z)

\* the parts per unit of the numbers TileBounds returns here
BoundsScale(tiler) == IF tiler = "slippy" THEN 1000 ELSE 1

\* the pixel coordinates and tile sizes PixelsToTile is examined with
Pixels == (0..MaxPixel) \cup {255, 256, 257, 512}
TileSizes == (1..MaxTileSize) \cup {TileSize}

\* one call of LatLonToTile (followed by TileBounds of its result), of
\* TileBounds, of PixelsToTile or of QuadTree, with its arguments
\* line 199 with the row counted from 2**zoom
GoogleTileFromTop(tx, ty, zoom) == <<tx, Pow2(zoom) - ty>>

\* tiler.py 195-199: MercatorTiler.GoogleTile
GoogleTile(tx, ty, zoom) == <<tx, (Pow2(zoom) - 1) - ty>>

InitTiler ==
    /\ IdleDownloader
    /\ ex = ExIdle
    /\ \/ \E t \in Tilers, lat \in SampleLats, lon \in SampleLons,
            z \in 0..MaxTilerZoom :
            tq = [TqIdle EXCEPT !.op = "LatLonToTile", !.src = "point",
                                !.tiler = t, !.lat = lat, !.lon = lon,
                                !.zoom = z]
       \/ \E t \in Tilers, z \in 0..MaxTilerZoom :
          \E x \in 0..(Pow2(z) - 1), y \in 0..(Pow2(z) - 1) :
            tq = [TqIdle EXCEPT !.op = "TileBounds", !.src = "tile",
                                !.tiler = t, !.zoom = z, !.tx = x, !.ty = y]
       \/ \E px \in Pixels, py \in Pixels, ts \in TileSizes :
            tq = [TqIdle EXCEPT !.op = "PixelsToTile", !.src = "pixels",
                                !.px = px, !.py = py, !.tileSize = ts]
       \/ \E z \in 0..MaxTilerZoom :
          \E x \in 0..(Pow2(z) - 1), y \in 0..(Pow2(z) - 1) :
            tq = [TqIdle EXCEPT !.op = "QuadTree", !.src = "quadtree",
                                !.zoom = z, !.tx = x, !.ty = y]
       \/ \E z \in 0..MaxTilerZoom :
          \E x \in 0..(Pow2(z) - 1), y \in 0..(Pow2(z) - 1) :
            tq = [TqIdle EXCEPT !.op = "GoogleTile", !.src = "google",
                                !.zoom = z, !.tx = x, !.ty = y]

TilerLatLonToTile ==
    /\ tq.op = "LatLonToTile"
    /\ tq' = [tq EXCEPT
                !.tx = LatLonToTile(tq.tiler, tq.lat, tq.lon, tq.zoom)[1],
                !.ty = LatLonToTile(tq.tiler, tq.lat, tq.lon, tq.zoom)[2],
                !.op = "TileBounds"]
    /\ UNCHANGED <<dvars, ex>>

TilerTileBounds ==
    /\ tq.op = "TileBounds"
    /\ tq' = [tq EXCEPT !.bounds = TileBounds(tq.tiler, tq.tx, tq.ty, tq.zoom),
                        !.op = "done"]
    /\ UNCHANGED <<dvars, ex>>

TilerPixelsToTile ==
    /\ tq.op = "PixelsToTile"
    /\ tq' = [tq EXCEPT !.tx = PixelsToTile(tq.px, tq.py, tq.tileSize)[1],
                        !.ty = PixelsToTile(tq.px, tq.py, tq.tileSize)[2],
                        !.op = "done"]
    /\ UNCHANGED <<dvars, ex>>

TilerQuadTree ==
    /\ tq.op = "QuadTree"
    /\ tq' = [tq EXCEPT !.quadKey = QuadTree(tq.tx, tq.ty, tq.zoom),
                        !.op = "done"]
    /\ UNCHANGED <<dvars, ex>>

\* GoogleTile( tx, ty, zoom )
TilerGoogleTile ==
    /\ tq.op = "GoogleTile"
    /\ tq' = [tq EXCEPT !.google = GoogleTile(tq.tx, tq.ty, tq.zoom),
                        !.op = "GoogleTileBack"]
    /\ UNCHANGED <<dvars, ex>>

\* GoogleTile applied to the tile GoogleTile returned
TilerGoogleTileBack ==
    /\ tq.op = "GoogleTileBack"
    /\ tq' = [tq EXCEPT
                !.back = GoogleTile(tq.google[1], tq.google[2], tq.zoom),
                !.op = "done"]
    /\ UNCHANGED <<dvars, ex>>

NextTiler ==
    \/ TilerLatLonToTile
    \/ TilerTileBounds
    \/ TilerPixelsToTile
    \/ TilerQuadTree
    \/ TilerGoogleTile
    \/ TilerGoogleTileBack

SpecTiler == InitTiler /\ [][NextTiler]_vars

\* ------------------------------------------------------------------ claims
PathsOf(w) == {tiles[w][k] : k \in 1..Len(tiles[w])}

\* C1: no task's failure ends a lane's loop early: a worker that has
\* terminated has gone through every task of its lane.
C1_LaneProcessedToEnd ==
    \A w \in Lanes :
        wk[w].pc \in {"done", "crashed"} => wk[w].i = Len(tasklist[w])

\* C2: once every attempt of getTile has failed and getTile has ended, the
\* fetch is in Failed and no file is at the task's destination path.
C2_FailedLeavesNoFile ==
    \A w \in Lanes :
        (wk[w].tries > 3 /\ wk[w].pc \in {"fetched", "crashed"})
            => /\ wk[w].fetch = "Failed"
               /\ Task(w).pathname \notin DOMAIN fs

\* C2 witness: three attempts failed, one of them while the body was being
\* written, and getTile has returned.
C2_Witness ==
    \E w \in Lanes :
        /\ wk[w].pc = "fetched"
        /\ wk[w].fetch = "Failed"
        /\ wk[w].gets = 3
        /\ Task(w).pathname \notin DOMAIN fs

\* C3: every failed attempt (network error, timeout, HTTP error response)
\* moves the fetch to Retrying, and no raster is recorded for a tile whose
\* attempts all failed.
C3_FailedAttemptRetries ==
    /\ \A w \in Lanes :
          wk[w].last \in {"net_error", "timeout", "body_error", "http_error"}
              => wk[w].fetch = "Retrying"
    /\ \A w \in Lanes : \A t \in TaskSet(tasklist) :
          status[t.xyz] = "failed" => GeoPathname(t.pathname) \notin PathsOf(w)

\* C4: for a destination path that exists when the task is reached, getTile
\* issues no GET, sleeps never and leaves the file as it was, and the worker
\* goes on to georeference that file.
C4_ExistingFileShortCircuits ==
    \A w \in Lanes :
        (wk[w].i > 0 /\ Task(w).pathname \in cfg.pre
           /\ wk[w].pc \notin {"next", "done"})
            => /\ wk[w].pc = "fetched"
               /\ wk[w].gets = 0
               /\ wk[w].sleeps = 0
               /\ Task(w).uri \notin requested
               /\ Task(w).pathname \in DOMAIN fs
               /\ fs[Task(w).pathname] = "old"
               /\ status[Task(w).xyz] = "todo"

\* C4 witness: getTile has returned for a path that existed, and the worker
\* is about to open that file.
C4_Witness ==
    \E w \in Lanes :
        /\ wk[w].pc = "fetched"
        /\ wk[w].existed
        /\ Task(w).pathname \in cfg.pre
        /\ fs[Task(w).pathname] = "old"

\* C5: getTile issues at most 3 GETs for a task, a fetch that succeeded
\* issued one GET more than it had failures and then stopped, and the fetch
\* is in Failed exactly when getTile's loop ended after three failures.
C5_AtMostThreeGets ==
    \A w \in Lanes :
        /\ wk[w].gets <= 3
        /\ wk[w].fetch = "Success"
              => wk[w].gets = wk[w].sleeps + 1 /\ wk[w].pc = "fetched"
        /\ wk[w].fetch = "Failed" => wk[w].gets = 3 /\ wk[w].sleeps = 3
        /\ (wk[w].sleeps = 3 /\ wk[w].pc # "next") => wk[w].fetch = "Failed"

\* C5 witness: a fetch that succeeded at its third GET.
C5_Witness ==
    \E w \in Lanes :
        wk[w].fetch = "Success" /\ wk[w].gets = 3 /\ wk[w].sleeps = 2

\* C6: a task whose tile does not intersect the AOI polygon causes no GET
\* and no raw or georeferenced file.
C6_MissedTileUntouched ==
    \A t \in TaskSet(tasklist) :
        status[t.xyz] = "skipped"
            => /\ t.uri \notin requested
               /\ t.pathname \in DOMAIN fs => fs[t.pathname] = "old"
               /\ GeoPathname(t.pathname) \notin DOMAIN fs
               /\ \A w \in Lanes : GeoPathname(t.pathname) \notin PathsOf(w)

\* C6 witness: a lane has ended, one of its tiles missed the AOI and
\* another one was fetched.
C6_Witness ==
    \E w \in DOMAIN tasklist : \E a, b \in 1..Len(tasklist[w]) :
        /\ wk[w].pc = "done"
        /\ status[tasklist[w][a].xyz] = "skipped"
        /\ status[tasklist[w][b].xyz] = "georef"

\* C7: with no AOI refinement geometry (None) the construction of the
\* workers succeeds and every task is fetched, none is filtered out.
C7_NoGeometryRuns ==
    cfg.geomNone
        => /\ pc # "init_error"
           /\ \A t \in DOMAIN status : status[t] # "skipped"
           /\ pc = "done" => merge.calls = 1

\* C8: gdal.Warp is invoked at most once, and not before every started
\* worker has terminated.
C8_MergeAfterJoin ==
    /\ merge.calls <= 1
    /\ merge.calls > 0
          => /\ started = cfg.threads
             /\ \A w \in 1..started : wk[w].pc \in {"done", "crashed"}

\* C8 witness: the merge has run with two workers started.
C8_Witness == merge.calls = 1 /\ started = 2

\* the georeferenced paths of the usable tasks among the first n of a lane
RECURSIVE Usable(_, _)
Usable(lane, n) ==
    IF n = 0 THEN <<>>
    ELSE IF status[lane[n].xyz] = "georef"
           THEN Append(Usable(lane, n - 1), GeoPathname(lane[n].pathname))
           ELSE Usable(lane, n - 1)

RECURSIVE LaneOrder(_)
LaneOrder(n) ==
    IF n = 0 THEN <<>>
    ELSE LaneOrder(n - 1) \o Usable(tasklist[n], Len(tasklist[n]))

\* C9: the raster list passed to the merge is the concatenation in lane
\* order of one georeferenced path per task that intersects the AOI, whose
\* fetch left a file and whose georeferencing succeeded, and nothing else.
C9_MergeInput ==
    merge.calls > 0 => merge.args = LaneOrder(Len(tasklist))

\* C10: when the merge fails no tile file is deleted and the output
\* directory stays.
C10_FailedMergeKeepsTiles ==
    (merge.calls > 0 /\ merge.result # "ok") => removed = {} /\ dirExists

IsTileName(p) == Len(p) >= 5 /\ SubSeq(p, 1, 5) = "tile_"

\* C11: after process has returned normally from a successful merge, no raw
\* and no georeferenced tile file (no file named tile_*) is in out_path.
C11_NoTilesAfterSuccess ==
    (pc = "done" /\ merge.result = "ok")
        => /\ \A p \in DOMAIN fs : ~IsTileName(p)
           /\ \A t \in TaskSet(tasklist) :
                 /\ t.pathname \notin DOMAIN fs
                 /\ GeoPathname(t.pathname) \notin DOMAIN fs

\* C11 witness: process has returned after a successful merge and the
\* cleanup had raw and georeferenced tiles to delete.
C11_Witness ==
    /\ pc = "done"
    /\ merge.result = "ok"
    /\ \E t \in TaskSet(tasklist) :
          {t.pathname, GeoPathname(t.pathname)} \subseteq removed
    /\ Cardinality(removed) >= 4

\* C12: an error raised by Downloader.process while one AOI is processed
\* does not end the batch: after it Extractor.process still goes through
\* every remaining AOI.
C12_BatchContinues ==
    (ex.pc = "raised" /\ ex.raisedBy = "Downloader.process")
        => ex.a = ex.naois

\* the tile grid of the bounding box: columns, rows, tiles
GridW == IF cfg.x2 >= cfg.x1 THEN cfg.x2 - cfg.x1 + 1 ELSE 0
GridH == Max(cfg.y1, cfg.y2) - Min(cfg.y1, cfg.y2) + 1
GridN == GridW * GridH

\* the tile at position p (from 0) of the row-major enumeration
EnumAt(p) ==
    <<cfg.x1 + (p % GridW), Min(cfg.y1, cfg.y2) + (p \div GridW), cfg.zoom>>

\* the lanes read in round-robin order from round j, lane l on
RECURSIVE RoundRobin(_, _, _)
RoundRobin(tl, j, l) ==
    IF \A k \in DOMAIN tl : Len(tl[k]) < j THEN <<>>
    ELSE IF l > Len(tl) THEN RoundRobin(tl, j + 1, 1)
    ELSE (IF j <= Len(tl[l]) THEN <<tl[l][j].xyz>> ELSE <<>>)
            \o RoundRobin(tl, j, l + 1)

\* C13: N tasks over K lanes: every lane gets floor(N/K) or ceil(N/K) tasks
\* and the lanes read round-robin give back the enumeration order.
C13_BalancedRoundRobin ==
    pc = "start" =>
        /\ Len(tasklist) = cfg.threads
        /\ \A l \in 1..cfg.threads :
              Len(tasklist[l]) \in {GridN \div cfg.threads,
                                    (GridN + cfg.threads - 1) \div cfg.threads}
        /\ RoundRobin(tasklist, 1, 1) = [p \in 1..GridN |-> EnumAt(p - 1)]

C13_Witness ==
    /\ pc = "start" /\ cfg.threads = 2 /\ GridN = 3
    /\ Len(tasklist[1]) = 2 /\ Len(tasklist[2]) = 1

\* C14: the task at enumeration position p is in lane p mod K, at place
\* p div K of that lane; the lane counter carries over from row to row.
C14_LaneOfPosition ==
    pc = "start" =>
        \A p \in 0..(GridN - 1) :
            LET l == (p % cfg.threads) + 1
                j == (p \div cfg.threads) + 1
            IN  j <= Len(tasklist[l]) /\ tasklist[l][j].xyz = EnumAt(p)

\* the 2 x 3 grid over 2 lanes: lane 0 holds positions 0, 2, 4 and lane 1
\* holds positions 1, 3, 5
C14_Witness ==
    /\ pc = "start" /\ cfg.threads = 2 /\ GridW = 3 /\ GridH = 2
    /\ [j \in 1..3 |-> tasklist[1][j].xyz] = <<EnumAt(0), EnumAt(2), EnumAt(4)>>
    /\ [j \in 1..3 |-> tasklist[2][j].xyz] = <<EnumAt(1), EnumAt(3), EnumAt(5)>>

\* the tiles of a lane, in the lane's order, and of all lanes, lane by lane
XyzOf(lane) == [j \in 1..Len(lane) |-> lane[j].xyz]

\* C15: the tasks are exactly the tiles with min(y1,y2) <= y <= max(y1,y2)
\* and x1 <= x <= x2, each once, created in row-major order; the x bounds
\* are not reordered, so x1 > x2 gives no task.
C15_RowMajorEnumeration ==
    pc = "start" =>
        /\ {t.xyz : t \in TaskSet(tasklist)}
              = {<<x, y, cfg.zoom>> :
                    x \in cfg.x1..cfg.x2,
                    y \in Min(cfg.y1, cfg.y2)..Max(cfg.y1, cfg.y2)}
        /\ Len(Collect([l \in DOMAIN tasklist |-> XyzOf(tasklist[l])],
                       Len(tasklist)))
              = Cardinality({t.xyz : t \in TaskSet(tasklist)})
        /\ \A l \in DOMAIN tasklist : \A i, j \in 1..Len(tasklist[l]) :
              i < j => \/ tasklist[l][i].xyz[2] < tasklist[l][j].xyz[2]
                       \/ /\ tasklist[l][i].xyz[2] = tasklist[l][j].xyz[2]
                          /\ tasklist[l][i].xyz[1] < tasklist[l][j].xyz[1]
        /\ cfg.x1 > cfg.x2 => TaskSet(tasklist) = {}

C15_Witness ==
    /\ pc = "start" /\ cfg.y1 > cfg.y2 /\ cfg.x1 < cfg.x2
    /\ Cardinality(TaskSet(tasklist)) = GridN /\ GridN >= 4

\* C20: two different tasks of one getTaskList result never share a raw
\* destination path or a georeferenced output path, nor is the raw path of
\* one the georeferenced path of the other: no file has two writers.
C20_DistinctPaths ==
    pc = "start" =>
        \A a, b \in TaskSet(tasklist) :
            a.xyz # b.xyz =>
                /\ a.pathname # b.pathname
                /\ GeoPathname(a.pathname) # GeoPathname(b.pathname)
                /\ a.pathname # GeoPathname(b.pathname)

C20_Witness ==
    /\ pc = "start" /\ cfg.threads >= 2
    /\ \E a \in 1..Len(tasklist[1]), b \in 1..Len(tasklist[2]) :
          /\ tasklist[1][a].xyz[1] = tasklist[2][b].xyz[1]
          /\ tasklist[1][a].xyz[2] # tasklist[2][b].xyz[2]
          /\ tasklist[1][a].pathname # tasklist[2][b].pathname

\* C16: every task getTaskList created is taken exactly once, by exactly one
\* worker: never twice, and by the time process reaches the merge no task
\* is left untaken.
C16_ConsumedExactlyOnce ==
    /\ \A t \in DOMAIN consumed : Len(consumed[t]) <= 1
    /\ merge.calls > 0 => \A t \in DOMAIN consumed : Len(consumed[t]) = 1

\* C17: Downloader.process does not return before all lanes are drained:
\* when it has returned, every worker has been started and joined and has
\* left its loop with no task of its lane remaining.
C17_ReturnsAfterLanesDrained ==
    pc = "done" =>
        /\ started = Len(tasklist) /\ joined = started
        /\ \A w \in Lanes :
              /\ wk[w].pc = "done"
              /\ wk[w].i = Len(tasklist[w])

\* C18: the tile rectangle and the AOI polygon of the intersection test are
\* in the same coordinate reference system, whatever the tiler.
C18_SameReferenceSystem ==
    \A w \in Lanes : wk[w].bboxCrs = wk[w].geomCrs

\* C19: a tile whose georeferencing failed (gdal.Open gave None or the
\* translate step failed) has no path in any worker's result list nor in
\* the merge input, and its worker goes on with the next task.
C19_FailedGeorefNotListed ==
    \A t \in TaskSet(tasklist) :
        status[t.xyz] \in {"unopened", "xlatefail", "xlatenone"} =>
            /\ \A w \in Lanes : GeoPathname(t.pathname) \notin PathsOf(w)
            /\ \A k \in 1..Len(merge.args) :
                  merge.args[k] # GeoPathname(t.pathname)
            /\ \A w \in Lanes :
                  (wk[w].i > 0 /\ Task(w).xyz = t.xyz)
                      => wk[w].pc \in {"next", "done"}

\* C21: a run whose workers produced no usable tile (every tile filtered
\* out or failed, or no tile in the range) still invokes the merge, exactly
\* once and with an empty raster list.
C21_EmptyMergeStillInvoked ==
    (/\ pc \in {"cleanup", "warp_error", "rmdir", "done"}
     /\ \A t \in DOMAIN status : status[t] # "georef")
        => merge.calls = 1 /\ merge.args = <<>>

\* the place in lane w of the task whose georeferenced path is p
LaneIndex(w, p) ==
    CHOOSE j \in 1..Len(tasklist[w]) : GeoPathname(tasklist[w][j].pathname) = p

\* C25: a worker handles the tasks of its lane strictly in partition order:
\* the tasks before its current one are finished, the tasks after it are
\* untouched, and its result list is in the order of the lane.
C25_LaneInOrder ==
    \A w \in DOMAIN tasklist :
        /\ \A j \in 1..Len(tasklist[w]) :
              /\ j < wk[w].i => /\ status[tasklist[w][j].xyz] # "todo"
                                /\ consumed[tasklist[w][j].xyz] = <<w>>
              /\ j > wk[w].i => /\ status[tasklist[w][j].xyz] = "todo"
                                /\ consumed[tasklist[w][j].xyz] = <<>>
                                /\ tasklist[w][j].uri \notin requested
        /\ \A a, b \in 1..Len(tiles[w]) :
              a < b => LaneIndex(w, tiles[w][a]) < LaneIndex(w, tiles[w][b])
        /\ \A a \in 1..Len(tiles[w]) : LaneIndex(w, tiles[w][a]) <= wk[w].i

C25_Witness ==
    \E w \in DOMAIN tasklist :
        /\ Len(tasklist[w]) >= 3 /\ wk[w].i = 3 /\ wk[w].pc = "attempt"
        /\ tiles[w] = <<GeoPathname(tasklist[w][1].pathname),
                        GeoPathname(tasklist[w][2].pathname)>>

\* C26: a fetch whose first two attempts failed and whose third succeeded
\* is in Success after exactly 3 GETs and 2 sleeps, the destination file
\* exists and holds the body of the third response, and the worker's next
\* step is the georeferencing of that tile.
C26_ThirdAttemptSucceeds ==
    [][\A w \in Lanes :
          (wk[w].fetch = "Success" /\ wk[w].sleeps = 2)
              => /\ wk[w].gets = 3 /\ wk[w].tries = 3
                 /\ wk[w].pc = "fetched"
                 /\ exists(fs, Task(w).pathname)
                 /\ fs[Task(w).pathname] = "body"
                 /\ wk'[w] # wk[w]
                       => /\ wk'[w].pc = "next" /\ wk'[w].i = wk[w].i
                          /\ status'[Task(w).xyz]
                                \in {"georef", "unopened", "xlatefail",
                                     "xlatenone"}]_vars

C26_Witness ==
    \E w \in Lanes :
        /\ wk[w].fetch = "Success" /\ wk[w].gets = 3 /\ wk[w].sleeps = 2
        /\ wk[w].pc = "fetched" /\ wk[w].last = "ok"
        /\ exists(fs, Task(w).pathname) /\ fs[Task(w).pathname] = "body"

\* C27: the lanes are complete before any worker starts and never change
\* afterwards; the result lists are read only by the merge, after every
\* worker has terminated, and no worker writes its list after that.
C27_ForkJoin ==
    [][/\ started' # started => tasklist = getTaskList(cfg)
       /\ started > 0 => tasklist = getTaskList(cfg) /\ tasklist' = tasklist
       /\ merge' # merge
             => /\ \A w \in Lanes : wk[w].pc \in {"done", "crashed"}
                /\ merge'.args = Collect(tiles, cfg.threads)
       /\ merge.calls > 0 => tiles' = tiles]_vars

C27_Witness ==
    /\ merge.calls = 1 /\ cfg.threads = 2
    /\ tiles[1] # <<>> /\ tiles[2] # <<>>
    /\ merge.args = tiles[1] \o tiles[2]

\* C30: exactly one sleep follows each failed attempt, and a sleep lasts a
\* whole number of seconds from 0 to 4.
C30_OneBoundedSleepPerFailure ==
    \A w \in Lanes :
        /\ wk[w].nap \in 0..4
        /\ wk[w].fetch = "Retrying" <=> wk[w].pc = "sleep"
        /\ wk[w].pc = "sleep" => wk[w].sleeps = wk[w].tries - 2
        /\ (wk[w].pc \in {"attempt", "remove", "fetched", "crashed"}
               /\ wk[w].tries >= 1)
              => wk[w].sleeps = wk[w].tries - 1

C30_Witness ==
    \E w \in Lanes :
        /\ wk[w].pc = "attempt" /\ wk[w].tries = 3 /\ wk[w].sleeps = 2
        /\ wk[w].nap = 4

\* C22: the bounds TileBounds returns for the tile LatLonToTile gives for a
\* point contain that point, for both tilers.
C22_RoundTripContainment ==
    (tq.src = "point" /\ tq.op = "done")
        => /\ tq.bounds[1] <= tq.lat * BoundsScale(tq.tiler)
           /\ tq.lat * BoundsScale(tq.tiler) <= tq.bounds[3]
           /\ tq.bounds[2] <= tq.lon * BoundsScale(tq.tiler)
           /\ tq.lon * BoundsScale(tq.tiler) <= tq.bounds[4]

\* C23: the slippy variant has 2^z tiles per axis and LatLonToTile gives x
\* and y within 0..2^z - 1 for every in-range point, the longitudes -180
\* and 180 included.
C23_SlippyIndexInRange ==
    (tq.src = "point" /\ tq.tiler = "slippy" /\ tq.op \in {"TileBounds", "done"})
        => /\ tq.tx \in 0..(numTiles(tq.zoom) - 1)
           /\ tq.ty \in 0..(numTiles(tq.zoom) - 1)

\* C24: for every tile and zoom TileBounds returns (south, west, north,
\* east) in geographic degrees with south < north and west < east.
C24_BoundsInDegrees ==
    (tq.src = "tile" /\ tq.op = "done")
        => /\ tq.bounds[1] < tq.bounds[3]
           /\ tq.bounds[2] < tq.bounds[4]
           /\ TileBoundsCrs(tq) = "EPSG:4326"
           /\ -90 * BoundsScale(tq.tiler) <= tq.bounds[1]
           /\ tq.bounds[3] <= 90 * BoundsScale(tq.tiler)
           /\ -180 * BoundsScale(tq.tiler) <= tq.bounds[2]
           /\ tq.bounds[4] <= 180 * BoundsScale(tq.tiler)

\* C28: PixelsToTile maps a pixel coordinate p to ceil(p / tileSize) - 1,
\* the tile t with t * tileSize < p <= (t + 1) * tileSize; a pixel on the
\* boundary k * tileSize is in tile k - 1.
C28_PixelsToTileCeiling ==
    (tq.src = "pixels" /\ tq.op = "done")
        => /\ tq.tx * tq.tileSize < tq.px
           /\ tq.px <= (tq.tx + 1) * tq.tileSize
           /\ tq.ty * tq.tileSize < tq.py
           /\ tq.py <= (tq.ty + 1) * tq.tileSize
           /\ \A k \in 0..tq.px : tq.px = k * tq.tileSize => tq.tx = k - 1

C28_Witness ==
    /\ tq.src = "pixels" /\ tq.op = "done"
    /\ tq.tileSize = 256 /\ tq.px = 512 /\ tq.tx = 1
    /\ tq.py = 257 /\ tq.ty = 1

\* C29: QuadTree gives exactly zoom digits; the digit for bit i, most
\* significant first, is (bit i of tx) + 2 * (bit i of (2^zoom - 1 - ty));
\* for zoom 0 the string is empty.
C29_QuadTreeDigits ==
    (tq.src = "quadtree" /\ tq.op = "done")
        => /\ Len(tq.quadKey) = tq.zoom
           /\ tq.zoom = 0 => tq.quadKey = ""
           /\ \A k \in 1..tq.zoom :
                 SubSeq(tq.quadKey, k, k)
                    = ToString(Bit(tq.tx, tq.zoom - k)
                        + 2 * Bit(Pow2(tq.zoom) - 1 - tq.ty, tq.zoom - k))

C29_Witness ==
    /\ tq.src = "quadtree" /\ tq.op = "done"
    /\ tq.zoom = 3 /\ tq.tx = 3 /\ tq.ty = 5 /\ tq.quadKey = "031"

\* the number of Downloader.process calls made for the records of AOI a
CallsFor(e, a) ==
    Cardinality({i \in DOMAIN e.calls : e.calls[i][1] = a})

\* C31: with --max_downloads = M at most M downloads are made for each AOI,
\* and only downloads count: the loop over the records of an AOI is left
\* before its last record only when M downloads were made for that AOI, so a
\* record skipped because its output exists uses up none of the M.
C31_LimitCountsDownloads ==
    [][(ex.max_downloads # NoLimit /\ ex.max_downloads[1] >= 1) =>
          /\ CallsFor(ex', ex'.a) <= ex.max_downloads[1]
          /\ (ex.pc = "record" /\ ex'.pc = "aoi" /\ ex'.r < ex.n)
                => CallsFor(ex', ex.a) = ex.max_downloads[1]]_vars

\* C32: the downloader is invoked for a record only if the record's output
\* file does not exist or --overwrite is set; with --info_only it is invoked
\* for no record and no output directory is created.
C32_DownloadGate ==
    [][/\ ex'.calls # ex.calls =>
             /\ ex'.calls = Append(ex.calls, <<ex.a, ex.r + 1>>)
             /\ <<ex.a, ex.r + 1>> \notin ex.outs \/ ex.overwrite
             /\ ~ex.info_only
       /\ ex.info_only => ex'.calls = <<>> /\ ex'.dirs = ex.dirs]_vars

\* one record of the batch was skipped for its existing output, another was
\* handed to the downloader
C32_Witness ==
    /\ ex.calls # <<>>
    /\ ex.skipped # {}
    /\ ~ex.overwrite
    /\ \A i \in DOMAIN ex.calls : ex.calls[i] \notin ex.skipped

\* the name of a file of out_path starts with 'tile'
StartsWithTile(p) == Len(p) >= 4 /\ SubSeq(p, 1, 4) = "tile"

\* C33: the cleanup of Downloader.process removes every file of out_path
\* whose name starts with 'tile', whether this run created it or not, leaves
\* every other file as it is, and then removes out_path if, and only if, no
\* file is left in it.
C33_CleanupFrame ==
    [][/\ (pc = "cleanup" /\ pc' # pc) =>
             /\ \A p \in DOMAIN fs :
                   IF StartsWithTile(p) THEN p \notin DOMAIN fs'
                   ELSE p \in DOMAIN fs' /\ fs'[p] = fs[p]
             /\ DOMAIN fs' \subseteq DOMAIN fs
             /\ dirExists' = dirExists
       /\ (pc = "rmdir" /\ pc' # pc) =>
             /\ fs' = fs
             /\ dirExists' = (dirExists /\ DOMAIN fs # {})]_vars

\* the cleanup has removed a raw tile left by an earlier run and tiles this
\* run wrote; the mosaic and a file the earlier run left under another name
\* are still there and so is the directory
C33_Witness ==
    /\ pc = "done"
    /\ removed \cap cfg.pre # {}
    /\ removed \ cfg.pre # {}
    /\ removed \cap DOMAIN fs = {}
    /\ DOMAIN fs = {OutPathname} \cup HiddenCandidates
    /\ \A p \in HiddenCandidates : fs[p] = "old"
    /\ dirExists

\* the task list the same call would get with URI template u
TaskListWith(u) == getTaskList([cfg EXCEPT !.uri = u])

\* the pathname the earlier run, called with UriTemplate, gave tile ( x, y )
EarlierPathname(x, y) == TaskPathname([cfg EXCEPT !.uri = UriTemplate], x, y)

\* C34: the pathname getTaskList gives a tile is the same whatever the URI
\* template (only the task's uri differs), so a raw tile an earlier run left
\* under UriTemplate is reused by this run, whatever its template: no GET is
\* issued for the tile and the file stays as it was up to the cleanup.
C34_PathIgnoresTemplate ==
    /\ pc = "start" =>
          \A u \in UriTemplates :
              LET other == TaskListWith(u)
              IN  \A l \in DOMAIN tasklist :
                      /\ Len(other[l]) = Len(tasklist[l])
                      /\ \A i \in 1..Len(tasklist[l]) :
                            /\ other[l][i].xyz = tasklist[l][i].xyz
                            /\ other[l][i].pathname = tasklist[l][i].pathname
                            /\ (u # cfg.uri)
                                  => other[l][i].uri # tasklist[l][i].uri
    /\ pc \notin {"rmdir", "rmdir_error", "done"} =>
          \A l \in DOMAIN tasklist : \A i \in 1..Len(tasklist[l]) :
              LET t == tasklist[l][i]
                  earlier == EarlierPathname(t.xyz[1], t.xyz[2])
              IN  earlier \in cfg.pre
                      => /\ t.uri \notin requested
                         /\ earlier \in DOMAIN fs
                         /\ fs[earlier] = "old"

\* a run with the other template has reached the merge with a raw tile of
\* the earlier run in its results, never having asked for that tile
C34_Witness ==
    /\ cfg.uri = OtherTemplate
    /\ pc = "merge"
    /\ \E t \in TaskSet(tasklist) :
          /\ t.pathname \in cfg.pre
          /\ t.uri.template = OtherTemplate
          /\ t.uri \notin requested
          /\ fs[t.pathname] = "old"
          /\ \E w \in Lanes : \E k \in DOMAIN tiles[w] :
                tiles[w][k] = GeoPathname(t.pathname)
    /\ requested # {}

\* C35: for 0 <= ty < 2^zoom GoogleTile leaves tx as it is, returns a row in
\* 0..2^zoom - 1, and applied to its own result gives ( tx, ty ) back.
C35_GoogleTileInvolution ==
    /\ (tq.src = "google" /\ tq.op \in {"GoogleTileBack", "done"}) =>
          /\ tq.google[1] = tq.tx
          /\ tq.google[2] >= 0
          /\ tq.google[2] <= Pow2(tq.zoom) - 1
    /\ (tq.src = "google" /\ tq.op = "done") => tq.back = <<tq.tx, tq.ty>>

\* GoogleTile was applied twice to a tile whose row it changes
C35_Witness ==
    /\ tq.src = "google"
    /\ tq.op = "done"
    /\ tq.zoom = 3
    /\ <<tq.tx, tq.ty>> = <<5, 1>>
    /\ tq.google = <<5, 6>>
    /\ tq.back = <<5, 1>>

====
